---- MODULE Spec2Model ----
(***************************************************************************)
(* Model of app.py: the Streamlit "detective case" player.                 *)
(*                                                                         *)
(* The script runs top to bottom once per user interaction.  A step of     *)
(* the model is one interaction with one widget together with the script   *)
(* run it triggers and, where the handler calls st.rerun(), the run that   *)
(* follows; the state between steps is st.session_state plus what the last *)
(* run put on the screen.  A press on a control that the page does not     *)
(* render, or renders disabled, reaches no handler code and leaves the     *)
(* state as it was.                                                        *)
(***************************************************************************)
EXTENDS Integers, Sequences, FiniteSets, TLC

VARIABLES
    cases,          \* list_cases(): the catalog found under content/cases
    case_slug,      \* st.session_state.case_slug (the active case)
    nav_page,       \* st.session_state.nav_page (the active view)
    state_by_case,  \* st.session_state.state_by_case: slug -> case state
    screen          \* what the last script run rendered

vars == <<cases, case_slug, nav_page, state_by_case, screen>>

----------------------------------------------------------------------------
(* Bounds *)

\* Most content items (non-empty notes, non-neutral statuses, list entries,
\* decisions) the registry holds in a session over a one-case catalog.
MaxContent == 3

\* The same, in a session over a catalog of several cases.
MaxShared == 1

----------------------------------------------------------------------------
(* Content: the case catalog under content/cases, as list_cases() and      *)
(* load_case() return it.                                                  *)

\* The hard-coded number of envelopes of a case.
LastEnvelope == 6

\* submitted_at before any submission (None).
NoTime == "None"

\* The readings datetime.now().isoformat() may give (stored, never read back).
Times == {"t1"}

\* The case files, in the sorted order list_cases() lists them.
CaseFiles == << [slug |-> "caso_a", title |-> "Caso A"],
                [slug |-> "caso_b", title |-> "Caso B"] >>

\* A catalog whose second case file lists no envelope 3.
GapFiles == << [slug |-> "caso_a", title |-> "Caso A"],
               [slug |-> "caso_c", title |-> "Caso C"] >>

Slugs == { cases[i].slug : i \in DOMAIN cases }

\* The three names used when a case declares no suspects.
FallbackSuspects == {"Daniel Moreira", "Laura Moreira", "Proprietario (Sr. Alvaro)"}

\* load_case(path): the parsed case file.
load_case(slug) ==
    IF slug = "caso_a"
    THEN [suspects  |-> {"Daniel Moreira"},
          envelopes |-> <<1, 2, 3, 4, 5, 6>>,
          closing   |-> "closing_a"]
    ELSE IF slug = "caso_b"
    THEN [suspects  |-> {"Laura Moreira"},
          envelopes |-> <<1, 2, 3, 4, 5, 6>>,
          closing   |-> "closing_b"]
    ELSE [suspects  |-> {"Laura Moreira"},
          envelopes |-> <<1, 2, 4, 5, 6>>,
          closing   |-> "closing_c"]

----------------------------------------------------------------------------
(* Texts are sequences of characters, so that str.strip() can be computed. *)

Blank == <<>>

\* What the user may type into a text input that the code strips.
TypedTexts == { <<>>, <<" ">>, <<" ", "x", " ">> }

\* What the user may type as a hypothesis or a timeline event in a session
\* over a one-case catalog: a second text tells the entries of a list apart.
EntryTexts == TypedTexts \cup { <<"y">> }

\* What the user may type into a free-text area stored as typed.
FreeTexts == { <<>>, <<"x">> }

RECURSIVE lstrip(_)
lstrip(s) == IF s # <<>> /\ Head(s) = " " THEN lstrip(Tail(s)) ELSE s

RECURSIVE rstrip(_)
rstrip(s) == IF s # <<>> /\ s[Len(s)] = " " THEN rstrip(SubSeq(s, 1, Len(s) - 1)) ELSE s

\* str.strip()
strip(s) == rstrip(lstrip(s))

----------------------------------------------------------------------------
(* Pages and statuses *)

PageHome      == "Inicio"
PageEnvelopes == "Envelopes"
PageNotebook  == "Caderno"
PageDecision  == "Decisao"
PageClosing   == "Fechamento"

pages == <<PageHome, PageEnvelopes, PageNotebook, PageDecision, PageClosing>>

Pages == { pages[i] : i \in DOMAIN pages }

Statuses == {"Neutro", "Suspeito", "Prioritario", "Descartado"}

OtherCulprit == "Outro/Indeterminado"

----------------------------------------------------------------------------
(* State helpers *)

empty_decision ==
    [culprit |-> "", method |-> Blank, motive |-> Blank,
     reasoning |-> Blank, submitted_at |-> NoTime]

default_case_state(case_data) ==
    LET suspects == IF case_data.suspects = {} THEN FallbackSuspects
                    ELSE case_data.suspects
    IN [started             |-> FALSE,
        current_env         |-> 1,
        max_opened_envelope |-> 0,
        notes               |-> Blank,
        timeline            |-> <<>>,
        hypotheses          |-> <<>>,
        suspects            |-> [s \in suspects |-> [status |-> "Neutro", notes |-> Blank]],
        decision_submitted  |-> FALSE,
        decision            |-> empty_decision]

\* s[slug] = v, as a Python dict assignment (the key may be new).
Put(s, slug, v) ==
    [k \in (DOMAIN s) \cup {slug} |-> IF k = slug THEN v ELSE s[k]]

\* get_cs: the registry after the lookup (the entry is created if missing).
get_cs(s, slug, case_data) ==
    IF slug \notin DOMAIN s THEN Put(s, slug, default_case_state(case_data)) ELSE s

\* reset_case, were it to replace every entry of the registry.
reset_case_every(s, slug, case_data) ==
    [k \in (DOMAIN s) \cup {slug} |-> default_case_state(case_data)]

reset_case(s, slug, case_data) == Put(s, slug, default_case_state(case_data))

\* can_open, off by one: the envelope after the frontier opens too.
can_open_next(cs, env_id) == env_id <= cs.max_opened_envelope + 1

can_open(cs, env_id) == env_id <= cs.max_opened_envelope

\* all_unlocked, off by one.
all_unlocked_early(cs) == cs.max_opened_envelope >= LastEnvelope - 1

all_unlocked(cs) == cs.max_opened_envelope >= LastEnvelope

\* The ids of the envelopes a case file lists.
EnvelopeIds(case_data) ==
    { case_data.envelopes[i] : i \in DOMAIN case_data.envelopes }

\* envelope_by_id: the envelope displayed for env_id (0: the lookup finds none).
envelope_by_id(case_data, env_id) ==
    IF env_id \in EnvelopeIds(case_data) THEN env_id ELSE 0

----------------------------------------------------------------------------
(* The amount of content a session holds, which the bounds cap.            *)

\* The content items of one case state.
Items(c) ==
    (IF c.notes # Blank THEN 1 ELSE 0)
    + Cardinality({ n \in DOMAIN c.suspects : c.suspects[n].status # "Neutro" })
    + Cardinality({ n \in DOMAIN c.suspects : c.suspects[n].notes # Blank })
    + Len(c.timeline) + Len(c.hypotheses)
    + (IF c.decision_submitted THEN 1 ELSE 0)

RECURSIVE SumItems(_, _)
SumItems(s, keys) ==
    IF keys = {} THEN 0
    ELSE LET k == CHOOSE x \in keys : TRUE
         IN Items(s[k]) + SumItems(s, keys \ {k})

\* The content items of the whole registry.
Size(s) == SumItems(s, DOMAIN s)

----------------------------------------------------------------------------
(* Rendering: what one script run puts on the screen.                      *)
(*   envelope : id of the envelope whose title and body are shown (0: none)*)
(*   locked   : ids of the envelopes listed with a disabled lock button    *)
(*   form     : the decision form is offered                               *)
(*   error    : "Preencha todos os campos." is shown                       *)
(*   closing  : the closing narrative shown ("" : none)                    *)
(*   failed   : the run ended in an exception no code catches              *)

NoClosing == ""

blank_screen ==
    [envelope |-> 0, locked |-> {}, form |-> FALSE, error |-> FALSE,
     closing |-> NoClosing, failed |-> FALSE]

\* require_started, were it to let every case through.
require_started_skipped(cs) == TRUE

\* require_started: TRUE when the page goes on past the check.
require_started(cs) == cs.started

page_home(case_data, cs) == blank_screen

page_envelopes(case_data, cs) ==
    IF ~require_started(cs) THEN blank_screen
    ELSE [blank_screen EXCEPT
            !.locked   = { e \in EnvelopeIds(case_data) : ~can_open(cs, e) },
            !.envelope = envelope_by_id(case_data, cs.current_env),
            !.failed   = (envelope_by_id(case_data, cs.current_env) = 0)]

page_notebook(case_data, cs) == blank_screen

page_decision(case_data, cs, err) ==
    IF ~require_started(cs) THEN blank_screen
    ELSE IF ~all_unlocked(cs) THEN blank_screen
    ELSE [blank_screen EXCEPT !.form = TRUE, !.error = err]

\* page_closing without the decision check.
page_closing_unlocked(case_data, cs) ==
    IF ~require_started(cs) THEN blank_screen
    ELSE [blank_screen EXCEPT !.closing = case_data.closing]

page_closing(case_data, cs) ==
    IF ~require_started(cs) THEN blank_screen
    ELSE IF ~cs.decision_submitted THEN blank_screen
    ELSE [blank_screen EXCEPT !.closing = case_data.closing]

router(page, case_data, cs, err) ==
    IF page = PageHome THEN page_home(case_data, cs)
    ELSE IF page = PageEnvelopes THEN page_envelopes(case_data, cs)
    ELSE IF page = PageNotebook THEN page_notebook(case_data, cs)
    ELSE IF page = PageDecision THEN page_decision(case_data, cs, err)
    ELSE page_closing(case_data, cs)

----------------------------------------------------------------------------
(* One script run *)

None == "None"

\* init_state: the session state of a session that has none.
init_state == [case_slug |-> None, nav_page |-> PageHome, state_by_case |-> <<>>]

\* Boot and render: the run of the script over session state (slug, page, s).
\* err: the run itself reported an incomplete decision form.
Run(slug, page, s, err) ==
    LET slug1 == IF slug = None THEN cases[1].slug ELSE slug
        data  == load_case(slug1)
        s1    == get_cs(s, slug1, data)
    IN /\ cases' = cases
       /\ case_slug' = slug1
       /\ nav_page' = page
       /\ state_by_case' = s1
       /\ screen' = router(page, data, s1[slug1], err)

\* The state of the active case and its content.
cs == state_by_case[case_slug]
case_data == load_case(case_slug)

\* The run of the script with cs replaced by new_cs, then showing `page`.
Commit(new_cs, page) ==
    Run(case_slug, page, Put(state_by_case, case_slug, new_cs), FALSE)

\* The session after the first run of the script over catalog `found`.
Boot(found) ==
    /\ cases = found
    /\ case_slug = found[1].slug
    /\ nav_page = init_state.nav_page
    /\ state_by_case = get_cs(init_state.state_by_case, found[1].slug,
                              load_case(found[1].slug))
    /\ screen = blank_screen

Init == Boot(CaseFiles)

InitOneCase == Boot(SubSeq(CaseFiles, 1, 1))

InitGap == Boot(GapFiles)

----------------------------------------------------------------------------
(* Menu *)

\* The titles the case selectbox offers.
titles == { cases[i].title : i \in DOMAIN cases }

\* options[title]: the slug the selectbox maps a title to (the last case of
\* that title, as the dict comprehension keeps it).
options(title) ==
    LET last == CHOOSE i \in DOMAIN cases :
                    /\ cases[i].title = title
                    /\ \A j \in DOMAIN cases : cases[j].title = title => j <= i
    IN cases[last].slug

\* The case selectbox, were it to reset the case it leaves.
SwitchCaseResetting(new_title) ==
    /\ new_title \in titles
    /\ options(new_title) # case_slug
    /\ Run(options(new_title), PageHome,
           reset_case(state_by_case, case_slug, load_case(case_slug)), FALSE)

\* The case selectbox, were it to enter the chosen case with a fresh state.
SwitchCaseEnteringAnew(new_title) ==
    /\ new_title \in titles
    /\ options(new_title) # case_slug
    /\ Run(options(new_title), PageHome,
           reset_case(state_by_case, options(new_title),
                      load_case(options(new_title))), FALSE)

\* The case selectbox.
SwitchCase(new_title) ==
    /\ new_title \in titles
    /\ options(new_title) # case_slug
    /\ Run(options(new_title), PageHome, state_by_case, FALSE)

\* The page radio.
SelectPage(sel) ==
    /\ sel # nav_page
    /\ Run(case_slug, sel, state_by_case, FALSE)

\* "Iniciar caso", were it offered on a started case too.
StartCaseAgain ==
    Commit([cs EXCEPT !.started = TRUE,
                      !.max_opened_envelope = 1,
                      !.current_env = 1], PageEnvelopes)

\* "Iniciar caso", were it to unlock every envelope.
StartCaseUnlockingAll ==
    /\ ~cs.started
    /\ Commit([cs EXCEPT !.started = TRUE,
                         !.max_opened_envelope = LastEnvelope,
                         !.current_env = 1], PageEnvelopes)

\* "Iniciar caso"
StartCase ==
    /\ ~cs.started
    /\ Commit([cs EXCEPT !.started = TRUE,
                         !.max_opened_envelope = 1,
                         !.current_env = 1], PageEnvelopes)

\* "Abrir Caderno" of the menu
MenuOpenNotebook ==
    /\ cs.started
    /\ Run(case_slug, PageNotebook, state_by_case, FALSE)

\* "Reiniciar este caso", were it to keep what the notebook holds.
ResetThisCaseKeepingNotebook ==
    /\ cs.started
    /\ Run(case_slug, PageHome,
           Put(state_by_case, case_slug,
               [default_case_state(case_data) EXCEPT
                    !.notes = cs.notes, !.timeline = cs.timeline,
                    !.hypotheses = cs.hypotheses, !.suspects = cs.suspects]),
           FALSE)

\* "Reiniciar este caso"
ResetThisCase ==
    /\ cs.started
    /\ Run(case_slug, PageHome, reset_case(state_by_case, case_slug, case_data), FALSE)

\* reset_all, were it to clear the selection and keep the registry.
reset_all_keeping_registry ==
    /\ Run(init_state.case_slug, init_state.nav_page, state_by_case, FALSE)

\* "Reset total (todos os casos)": reset_all, then the run of a new session.
reset_all ==
    /\ Run(init_state.case_slug, init_state.nav_page, init_state.state_by_case, FALSE)

ResetTotal ==
    /\ cs.started
    /\ reset_all

----------------------------------------------------------------------------
(* The bound on content *)

\* The write of new_cs adds no content, or the session has room for it.
Fits(new_cs) ==
    \/ Items(new_cs) <= Items(cs)
    \/ Size(Put(state_by_case, case_slug, new_cs))
          <= (IF Len(cases) = 1 THEN MaxContent ELSE MaxShared)

----------------------------------------------------------------------------
(* Envelopes page *)

\* The page is routed to and passes require_started: the list of envelopes
\* is rendered.
OnEnvelopesList ==
    /\ nav_page = PageEnvelopes
    /\ require_started(cs)

\* The page also finds its envelope: what follows the list is rendered.
OnEnvelopes ==
    /\ OnEnvelopesList
    /\ envelope_by_id(case_data, cs.current_env) # 0

\* open_envelope, were opening an envelope to unlock the one after it.
open_envelope_unlocking(c, env_id) ==
    [c EXCEPT !.current_env = env_id,
              !.max_opened_envelope =
                    IF env_id < LastEnvelope /\ @ <= env_id THEN env_id + 1 ELSE @]

\* The case state after "Abrir Envelope env_id".
open_envelope(c, env_id) == [c EXCEPT !.current_env = env_id]

\* "Abrir Envelope env_id": rendered enabled only where can_open allows.
OpenEnvelope(env_id) ==
    /\ OnEnvelopesList
    /\ env_id \in EnvelopeIds(case_data)
    /\ can_open(cs, env_id)
    /\ Commit(open_envelope(cs, env_id), PageEnvelopes)

\* confirm_reading without the frontier check.
confirm_reading_any(c, env_id) ==
    IF env_id < LastEnvelope
    THEN [c EXCEPT !.max_opened_envelope = @ + 1]
    ELSE c

\* The case state after "Confirmar leitura" on envelope env_id.
confirm_reading(c, env_id) ==
    IF c.max_opened_envelope = env_id /\ env_id < LastEnvelope
    THEN [c EXCEPT !.max_opened_envelope = @ + 1]
    ELSE c

\* "Confirmar leitura"
ConfirmReading ==
    /\ OnEnvelopes
    /\ Commit(confirm_reading(cs, cs.current_env), PageEnvelopes)

Min(a, b) == IF a <= b THEN a ELSE b

\* The envelope "Proximo envelope" leads to.
next_id(env_id) == Min(env_id + 1, LastEnvelope)

\* "Proximo envelope" rendered enabled whatever the frontier.
next_allowed_always(c) == c.current_env < LastEnvelope

\* "Proximo envelope" is rendered enabled.
next_allowed(c) ==
    /\ c.current_env < LastEnvelope
    /\ can_open(c, next_id(c.current_env))

\* "Proximo envelope"
NextEnvelope ==
    /\ OnEnvelopes
    /\ next_allowed(cs)
    /\ Commit(open_envelope(cs, next_id(cs.current_env)), PageEnvelopes)

\* go(page_name)
go(page_name) == Run(case_slug, page_name, state_by_case, FALSE)

\* "Abrir Caderno do Investigador"
EnvOpenNotebook ==
    /\ OnEnvelopes
    /\ go(PageNotebook)

\* "Ir para minha decisao": offered at the last envelope.
GoToDecision ==
    /\ OnEnvelopes
    /\ cs.current_env = LastEnvelope
    /\ go(PageDecision)

\* append_entry, were it to put the new entry first.
append_entry_first(list, typed, now) ==
    IF strip(typed) # Blank
    THEN <<[at |-> now, text |-> strip(typed)]>> \o list
    ELSE list

\* The list after a save of `typed` at time `now`: blank text is not saved.
append_entry(list, typed, now) ==
    IF strip(typed) # Blank
    THEN Append(list, [at |-> now, text |-> strip(typed)])
    ELSE list

\* "Salvar hipotese" with txt typed.
SaveHypothesis(txt) ==
    /\ OnEnvelopes
    /\ \E now \in Times :
         LET new_cs == [cs EXCEPT !.hypotheses = append_entry(@, txt, now)]
         IN /\ Fits(new_cs)
            /\ Commit(new_cs, PageEnvelopes)

----------------------------------------------------------------------------
(* Notebook page *)

OnNotebook ==
    /\ nav_page = PageNotebook
    /\ require_started(cs)

\* The notes text area is edited.
SetNotes(text) ==
    /\ OnNotebook
    /\ LET new_cs == [cs EXCEPT !.notes = text]
       IN /\ Fits(new_cs)
          /\ Commit(new_cs, PageNotebook)

\* The timeline after "Adicionar" with `typed` at time `now`.
append_event(list, typed, now) ==
    IF strip(typed) # Blank
    THEN Append(list, [at |-> now, event |-> strip(typed)])
    ELSE list

\* The timeline form is submitted with t typed.
AddTimelineEvent(t) ==
    /\ OnNotebook
    /\ \E now \in Times :
         LET new_cs == [cs EXCEPT !.timeline = append_event(@, t, now)]
         IN /\ Fits(new_cs)
            /\ Commit(new_cs, PageNotebook)

\* The status selectbox of suspect `name` is changed.
SetSuspectStatus(name, new_status) ==
    /\ OnNotebook
    /\ name \in DOMAIN cs.suspects
    /\ LET new_cs == [cs EXCEPT !.suspects[name].status = new_status]
       IN /\ Fits(new_cs)
          /\ Commit(new_cs, PageNotebook)

\* The notes text area of suspect `name` is edited.
SetSuspectNotes(name, text) ==
    /\ OnNotebook
    /\ name \in DOMAIN cs.suspects
    /\ LET new_cs == [cs EXCEPT !.suspects[name].notes = text]
       IN /\ Fits(new_cs)
          /\ Commit(new_cs, PageNotebook)

----------------------------------------------------------------------------
(* Decision page *)

\* The culprit selectbox, were it to offer the fallback names for any case.
suspects_list_fallback(c) == {""} \cup FallbackSuspects \cup {OtherCulprit}

\* The options of the culprit selectbox.
suspects_list(c) == {""} \cup DOMAIN c.suspects \cup {OtherCulprit}

\* The check without strip(): blank text passes.
complete_unstripped(culprit, method, motive, reasoning) ==
    ~(culprit = "" \/ method = Blank \/ motive = Blank \/ reasoning = Blank)

\* The form passes the "all fields filled" check.
complete(culprit, method, motive, reasoning) ==
    ~(culprit = "" \/ strip(method) = Blank \/ strip(motive) = Blank
        \/ strip(reasoning) = Blank)

\* The case state after an accepted form.
record_decision(c, culprit, method, motive, reasoning, now) ==
    [c EXCEPT !.decision_submitted = TRUE,
              !.decision = [culprit      |-> culprit,
                            method       |-> strip(method),
                            motive       |-> strip(motive),
                            reasoning    |-> strip(reasoning),
                            submitted_at |-> now]]

\* The form rendered without the all_unlocked check.
OnDecisionFormUngated ==
    /\ nav_page = PageDecision
    /\ require_started(cs)

\* The form is rendered: the page passes require_started and all_unlocked.
OnDecisionForm ==
    /\ nav_page = PageDecision
    /\ require_started(cs)
    /\ all_unlocked(cs)

\* "Enviar decisao" with the four fields as given.
SubmitDecision(culprit, method, motive, reasoning) ==
    /\ OnDecisionForm
    /\ culprit \in suspects_list(cs)
    /\ IF complete(culprit, method, motive, reasoning)
       THEN \E now \in Times :
              LET new_cs == record_decision(cs, culprit, method, motive, reasoning, now)
              IN /\ Fits(new_cs)
                 /\ Commit(new_cs, PageDecision)
       ELSE Run(case_slug, PageDecision, state_by_case, TRUE)

----------------------------------------------------------------------------

AllTitles ==
    { CaseFiles[i].title : i \in DOMAIN CaseFiles }
        \cup { GapFiles[i].title : i \in DOMAIN GapFiles }

AllSuspects ==
    UNION { load_case(CaseFiles[i].slug).suspects : i \in DOMAIN CaseFiles }

\* The number of fields of form f left empty or blank.
BlankFields(f) ==
    (IF f.culprit = "" THEN 1 ELSE 0) + (IF strip(f.method) = Blank THEN 1 ELSE 0)
    + (IF strip(f.motive) = Blank THEN 1 ELSE 0)
    + (IF strip(f.reasoning) = Blank THEN 1 ELSE 0)

\* The decision forms the user sends: complete, with one field left empty or
\* blank (each field, each way), or with all four.
FormInputs ==
    { f \in [culprit : {""} \cup AllSuspects \cup {OtherCulprit},
             method : TypedTexts, motive : TypedTexts, reasoning : TypedTexts] :
        BlankFields(f) \in {0, 1, 4} }

\* Every interaction but the change of case.
NextOneCase ==
    \/ \E sel \in Pages : SelectPage(sel)
    \/ StartCase
    \/ MenuOpenNotebook
    \/ ResetThisCase
    \/ ResetTotal
    \/ \E env_id \in 1..LastEnvelope : OpenEnvelope(env_id)
    \/ ConfirmReading
    \/ NextEnvelope
    \/ EnvOpenNotebook
    \/ GoToDecision
    \/ \E txt \in TypedTexts : SaveHypothesis(txt)
    \/ \E text \in FreeTexts : SetNotes(text)
    \/ \E t \in TypedTexts : AddTimelineEvent(t)
    \/ \E name \in DOMAIN cs.suspects, new_status \in Statuses :
            SetSuspectStatus(name, new_status)
    \/ \E name \in DOMAIN cs.suspects, text \in FreeTexts : SetSuspectNotes(name, text)
    \/ \E f \in FormInputs : SubmitDecision(f.culprit, f.method, f.motive, f.reasoning)

Next ==
    \/ \E new_title \in AllTitles : SwitchCase(new_title)
    \/ NextOneCase

\* A session over the whole catalog.
Spec == Init /\ [][Next]_vars

\* The interactions of a session over a one-case catalog: the list entries
\* are typed from EntryTexts.
NextOneCaseTyping ==
    \/ NextOneCase
    \/ \E txt \in EntryTexts \ TypedTexts : SaveHypothesis(txt)
    \/ \E t \in EntryTexts \ TypedTexts : AddTimelineEvent(t)

\* A session over a catalog of one case (the case selectbox has one option).
SpecOneCase == InitOneCase /\ [][NextOneCaseTyping]_vars

\* A session over the catalog with the case file that lists no envelope 3.
SpecGap == InitGap /\ [][Next]_vars

----------------------------------------------------------------------------
(* Properties *)

\* The registry holds a state for slug, and its decision is submitted.
Submitted(slug) ==
    /\ slug \in DOMAIN state_by_case
    /\ state_by_case[slug].decision_submitted

AllSlugs == { CaseFiles[i].slug : i \in DOMAIN CaseFiles }

\* The step is an accepted "Enviar decisao" on the active case.
AcceptedSubmit ==
    \E f \in FormInputs :
        /\ BlankFields(f) = 0
        /\ SubmitDecision(f.culprit, f.method, f.motive, f.reasoning)

\* C1: whenever the closing narrative of a case is on the screen, that case
\* is the active one and its decision has been submitted.
C1_ClosingOnlyAfterDecision ==
    \A slug \in AllSlugs :
        screen.closing = load_case(slug).closing
            => slug = case_slug /\ Submitted(slug)

\* C1 witness: a closing narrative is on the screen.
C1_Witness ==
    /\ nav_page = PageClosing
    /\ screen.closing = load_case(case_slug).closing

\* C2: decision_submitted of a case turns true only in an accepted "Enviar
\* decisao" on that case, and turns false only in a reset of that case or a
\* total reset; in between it keeps its value.
C2_SubmittedChangesOnlyBySubmitOrReset ==
    [][\A slug \in AllSlugs :
          /\ (~Submitted(slug) /\ Submitted(slug)')
                => (AcceptedSubmit /\ case_slug = slug)
          /\ (Submitted(slug) /\ ~Submitted(slug)')
                => ((ResetThisCase /\ case_slug = slug) \/ ResetTotal)]_vars

\* C2 witness: a case's decision stays submitted while another case is active.
C2_Witness ==
    \E slug \in AllSlugs : Submitted(slug) /\ slug # case_slug

\* C3: between resets, the decision record of a submitted case never changes.
C3_DecisionFrozen ==
    [][\A slug \in AllSlugs :
          (Submitted(slug) /\ Submitted(slug)')
              => state_by_case'[slug].decision = state_by_case[slug].decision]_vars

\* C4: on the envelopes page of a started case, "Abrir Envelope e" can be
\* pressed exactly for e <= max_opened_envelope and "Proximo envelope" exactly
\* when the next envelope is <= max_opened_envelope; either press sets only
\* current_env, to that envelope; and no step moves current_env of a started
\* case beyond the frontier it had.
C4_NavigateOnlyToUnlocked ==
    /\ [](OnEnvelopes =>
            /\ \A e \in 1..LastEnvelope :
                  (ENABLED OpenEnvelope(e)) <=> e <= cs.max_opened_envelope
            /\ (ENABLED NextEnvelope) <=>
                  /\ cs.current_env < LastEnvelope
                  /\ cs.current_env + 1 <= cs.max_opened_envelope)
    /\ [][/\ \A e \in 1..LastEnvelope :
                OpenEnvelope(e) =>
                    state_by_case' = Put(state_by_case, case_slug,
                                         [cs EXCEPT !.current_env = e])
          /\ NextEnvelope =>
                state_by_case' = Put(state_by_case, case_slug,
                                     [cs EXCEPT !.current_env = @ + 1])
          /\ \A slug \in DOMAIN state_by_case \cap DOMAIN state_by_case' :
                (/\ state_by_case[slug].started
                 /\ state_by_case'[slug].started
                 /\ state_by_case'[slug].current_env # state_by_case[slug].current_env)
                    => state_by_case'[slug].current_env
                          <= state_by_case[slug].max_opened_envelope]_vars

\* C4 witness: an unlocked envelope behind the frontier is open while later
\* envelopes are still locked.
C4_Witness ==
    /\ OnEnvelopes
    /\ cs.current_env = 3
    /\ cs.max_opened_envelope = 4
    /\ screen.envelope = 3
    /\ screen.locked = {5, 6}

\* C5: "Confirmar leitura" raises max_opened_envelope by one when the envelope
\* viewed is the frontier and the frontier is below 6, and otherwise changes
\* nothing; it changes no other field, no other case, and shows no error.
C5_ConfirmAdvancesFrontierOnly ==
    [][ConfirmReading =>
          LET advance == /\ cs.current_env = cs.max_opened_envelope
                         /\ cs.max_opened_envelope < LastEnvelope
          IN /\ state_by_case' =
                    Put(state_by_case, case_slug,
                        [cs EXCEPT !.max_opened_envelope =
                                      IF advance THEN @ + 1 ELSE @])
             /\ nav_page' = nav_page
             /\ case_slug' = case_slug
             /\ ~screen'.error]_vars

\* C5 witness: the frontier was advanced from the envelope still in view, so
\* that a second confirmation finds current_env behind the frontier.
C5_Witness ==
    /\ OnEnvelopes
    /\ cs.current_env = 1
    /\ cs.max_opened_envelope = 2

\* The frontier of a case (0 while the registry holds no state for it).
Frontier(slug) ==
    IF slug \in DOMAIN state_by_case
    THEN state_by_case[slug].max_opened_envelope ELSE 0

\* C6: max_opened_envelope of a case decreases only in a reset of that case or
\* in a total reset.
C6_FrontierMonotonic ==
    [][\A slug \in AllSlugs :
          Frontier(slug)' < Frontier(slug)
              => ((ResetThisCase /\ case_slug = slug) \/ ResetTotal)]_vars

\* C6 witness: both cases have advanced their frontier.
C6_Witness ==
    \A slug \in AllSlugs : Frontier(slug) >= 2

\* C7: on the decision page the form is offered, and can be sent, exactly when
\* max_opened_envelope >= 6; and no step out of a state where a case has
\* max_opened_envelope < 6 changes its decision_submitted or its decision.
C7_DecisionNeedsAllEnvelopes ==
    /\ [](nav_page = PageDecision =>
            /\ screen.form <=> cs.max_opened_envelope >= LastEnvelope
            /\ (\E f \in FormInputs :
                   ENABLED SubmitDecision(f.culprit, f.method, f.motive, f.reasoning))
                 <=> cs.max_opened_envelope >= LastEnvelope)
    /\ [][\A slug \in DOMAIN state_by_case \cap DOMAIN state_by_case' :
            state_by_case[slug].max_opened_envelope < LastEnvelope
                => /\ state_by_case'[slug].decision_submitted
                        = state_by_case[slug].decision_submitted
                   /\ state_by_case'[slug].decision = state_by_case[slug].decision]_vars

\* C7 witness: the decision page of a started case that has not unlocked all
\* envelopes offers no form.
C7_Witness ==
    /\ nav_page = PageDecision
    /\ cs.started
    /\ cs.max_opened_envelope = LastEnvelope - 1
    /\ ~screen.form

\* The forms with a field left empty or blank.
IncompleteForms == { f \in FormInputs : BlankFields(f) >= 1 }

\* C8: a step that sends the decision form with any field empty or blank
\* changes no case state and shows the form again with the error.
C8_IncompleteFormCommitsNothing ==
    [][\/ nav_page # PageDecision
       \/ /\ state_by_case' = state_by_case
          /\ screen'.error
          /\ screen'.form
       \/ ~\E f \in IncompleteForms :
              SubmitDecision(f.culprit, f.method, f.motive, f.reasoning)]_vars

\* C8 witness: the error is shown and the case has no decision.
C8_Witness ==
    /\ screen.error
    /\ ~cs.decision_submitted
    /\ cs.decision = empty_decision

\* C9: a case with a submitted decision has max_opened_envelope = 6.
C9_DecisionImpliesAllUnlocked ==
    \A slug \in DOMAIN state_by_case :
        state_by_case[slug].decision_submitted
            => state_by_case[slug].max_opened_envelope = LastEnvelope

\* C9 witness: a decided case whose reader has gone back to an early envelope.
C9_Witness ==
    /\ cs.decision_submitted
    /\ cs.current_env = 2
    /\ nav_page = PageEnvelopes

\* C10: a step other than a total reset leaves the state of every case that is
\* not the active one as it was.
C10_CaseIsolation ==
    [][ResetTotal \/
         \A slug \in DOMAIN state_by_case :
            slug # case_slug
                => /\ slug \in DOMAIN state_by_case'
                   /\ state_by_case'[slug] = state_by_case[slug]]_vars

\* C10 witness: the active case is reset to its default state while the other
\* case keeps its progress.
C10_Witness ==
    \E slug \in DOMAIN state_by_case :
        /\ slug # case_slug
        /\ state_by_case[slug].max_opened_envelope >= 3
        /\ state_by_case[slug].notes # Blank
        /\ ~cs.started
        /\ nav_page = PageHome

\* C11: a change of case sets the active case to the chosen one and the view
\* to the home page, and leaves the state of every case the registry holds as
\* it was; the only entry it may add is the default state of the chosen case,
\* when the registry held none for it.
C11_SwitchKeepsProgress ==
    [][\A new_title \in AllTitles :
          SwitchCase(new_title) =>
              /\ case_slug' = options(new_title)
              /\ nav_page' = PageHome
              /\ \A slug \in DOMAIN state_by_case :
                    /\ slug \in DOMAIN state_by_case'
                    /\ state_by_case'[slug] = state_by_case[slug]
              /\ \A slug \in DOMAIN state_by_case' \ DOMAIN state_by_case :
                    /\ slug = case_slug'
                    /\ state_by_case'[slug] = default_case_state(load_case(slug))]_vars

\* C11 witness: the first case is active again, on the home page, with the
\* progress it had, after the second case was entered and played.
C11_Witness ==
    /\ case_slug = CaseFiles[1].slug
    /\ nav_page = PageHome
    /\ cs.max_opened_envelope >= 2
    /\ cs.current_env = 2
    /\ CaseFiles[2].slug \in DOMAIN state_by_case
    /\ state_by_case[CaseFiles[2].slug].max_opened_envelope >= 2

\* C12: "Reiniciar este caso" leaves the active case not started, at envelope
\* 1 with frontier 0, with empty notes, timeline and hypotheses, every suspect
\* of its roster neutral and without notes, and no decision; and it leaves
\* the state of every other case as it was.
C12_ResetCaseGivesDefault ==
    [][ResetThisCase =>
          /\ DOMAIN state_by_case' = DOMAIN state_by_case
          /\ \A slug \in DOMAIN state_by_case \ {case_slug} :
                state_by_case'[slug] = state_by_case[slug]
          /\ LET new == state_by_case'[case_slug]
             IN /\ ~new.started
                /\ new.current_env = 1
                /\ new.max_opened_envelope = 0
                /\ new.notes = <<>>
                /\ new.timeline = <<>>
                /\ new.hypotheses = <<>>
                /\ DOMAIN new.suspects = DOMAIN cs.suspects
                /\ \A n \in DOMAIN new.suspects :
                      new.suspects[n] = [status |-> "Neutro", notes |-> <<>>]
                /\ ~new.decision_submitted
                /\ new.decision = [culprit |-> "", method |-> <<>>,
                                   motive |-> <<>>, reasoning |-> <<>>,
                                   submitted_at |-> NoTime]]_vars

\* C12 witness: the second case is back at its default state on the home
\* page while the first case keeps the decision it submitted.
C12_Witness ==
    /\ case_slug = CaseFiles[2].slug
    /\ nav_page = PageHome
    /\ cs = default_case_state(case_data)
    /\ Submitted(CaseFiles[1].slug)

\* C13: after "Reset total" the first case of the catalog is active on the
\* home page, the registry holds no state but the default state of that case,
\* and so every case has the default state when it is next looked up;
\* whichever case was active and however many had progress.
C13_ResetAllClearsEverything ==
    [][ResetTotal =>
          /\ case_slug' = cases[1].slug
          /\ nav_page' = PageHome
          /\ screen' = blank_screen
          /\ DOMAIN state_by_case' = {cases[1].slug}
          /\ \A slug \in Slugs :
                LET found == get_cs(state_by_case', slug, load_case(slug))[slug]
                IN /\ ~found.started
                   /\ found.current_env = 1
                   /\ found.max_opened_envelope = 0
                   /\ found.notes = <<>>
                   /\ found.timeline = <<>>
                   /\ found.hypotheses = <<>>
                   /\ \A n \in DOMAIN found.suspects :
                         found.suspects[n] = [status |-> "Neutro", notes |-> <<>>]
                   /\ ~found.decision_submitted
                   /\ found.decision = empty_decision]_vars

\* C13 witness: "Reset total" can be pressed while the second case is active
\* away from the home page and both cases have progress.
C13_Witness ==
    /\ ENABLED ResetTotal
    /\ case_slug = CaseFiles[2].slug
    /\ nav_page = PageNotebook
    /\ cs.notes # Blank
    /\ \A slug \in AllSlugs : Frontier(slug) >= 2

\* The registry holds a state for slug, and the case is started.
Started(slug) ==
    /\ slug \in DOMAIN state_by_case
    /\ state_by_case[slug].started

\* C14: "Iniciar caso" cannot be pressed on a started case; pressed on a case
\* not started it sets started, max_opened_envelope = 1 and current_env = 1
\* and nothing else of the case; a case becomes started in no other step, and
\* stops being started only in a reset of that case or a total reset.
C14_StartOnlyOnce ==
    /\ [](cs.started => ~ENABLED StartCase)
    /\ [][/\ StartCase =>
                /\ ~cs.started
                /\ state_by_case' =
                      Put(state_by_case, case_slug,
                          [cs EXCEPT !.started = TRUE,
                                     !.max_opened_envelope = 1,
                                     !.current_env = 1])
          /\ \A slug \in AllSlugs :
                /\ (~Started(slug) /\ Started(slug)')
                      => (StartCase /\ case_slug = slug)
                /\ (Started(slug) /\ ~Started(slug)')
                      => ((ResetThisCase /\ case_slug = slug) \/ ResetTotal)]_vars

\* C14 witness: the second case has just been started, the first one being
\* started and further on.
C14_Witness ==
    /\ case_slug = CaseFiles[2].slug
    /\ nav_page = PageEnvelopes
    /\ cs.started
    /\ cs.max_opened_envelope = 1
    /\ screen.envelope = 1
    /\ Started(CaseFiles[1].slug)
    /\ Frontier(CaseFiles[1].slug) = 3

\* C15: in every step in which max_opened_envelope of a case increases, the
\* step is "Confirmar leitura" on that case.
C15_OnlyConfirmRaisesFrontier ==
    [][\A slug \in AllSlugs :
          Frontier(slug)' > Frontier(slug)
              => (ConfirmReading /\ case_slug = slug)]_vars

\* C15, amended: in every step in which max_opened_envelope of a case
\* increases, the step is either "Iniciar caso" on that case, which takes it
\* from 0 to 1, or "Confirmar leitura" on that case, started, which adds one.
C15_OnlyStartOrConfirmRaisesFrontier ==
    [][\A slug \in AllSlugs :
          Frontier(slug)' > Frontier(slug)
              => /\ case_slug = slug
                 /\ \/ /\ StartCase
                       /\ Frontier(slug) = 0
                       /\ Frontier(slug)' = 1
                    \/ /\ ConfirmReading
                       /\ Started(slug)
                       /\ Frontier(slug)' = Frontier(slug) + 1]_vars

\* C15 witness: the active case has just been started, frontier 1, and the
\* other case has had its frontier confirmed up to the last envelope.
C15_Witness ==
    /\ nav_page = PageEnvelopes
    /\ cs.started
    /\ cs.max_opened_envelope = 1
    /\ \E slug \in AllSlugs \ {case_slug} : Frontier(slug) = LastEnvelope

\* C16: in every state, a case whose decision is not submitted has an empty
\* culprit, method, motive and reasoning and no submitted_at; a case whose
\* decision is submitted has method, motive and reasoning that are not blank
\* once stripped, a submitted_at, and a culprit that is one of the suspects of
\* that case or "Outro/Indeterminado".
C16_DecisionWellFormed ==
    \A slug \in DOMAIN state_by_case :
        LET c == state_by_case[slug]
            d == c.decision
        IN IF ~c.decision_submitted
           THEN /\ d.culprit = ""
                /\ d.method = <<>>
                /\ d.motive = <<>>
                /\ d.reasoning = <<>>
                /\ d.submitted_at = NoTime
           ELSE /\ strip(d.method) # <<>>
                /\ strip(d.motive) # <<>>
                /\ strip(d.reasoning) # <<>>
                /\ d.submitted_at \in Times
                /\ d.submitted_at # NoTime
                /\ d.culprit \in load_case(slug).suspects \cup {OtherCulprit}

\* C16 witness: the first case has a decision naming its suspect, and the
\* second case, started, has none.
C16_Witness ==
    /\ Submitted(CaseFiles[1].slug)
    /\ state_by_case[CaseFiles[1].slug].decision.culprit
            \in load_case(CaseFiles[1].slug).suspects
    /\ state_by_case[CaseFiles[1].slug].decision.method = <<"x">>
    /\ Started(CaseFiles[2].slug)
    /\ ~Submitted(CaseFiles[2].slug)

\* The envelope ids of a case file are exactly 1..6, each once.
ContiguousIds(data) ==
    /\ Len(data.envelopes) = LastEnvelope
    /\ EnvelopeIds(data) = 1..LastEnvelope

\* C17: the registry never holds a state for a case whose envelope ids are
\* not exactly 1..6, and no run ends in a failed envelope lookup.
C17_MalformedCaseRejected ==
    /\ \A slug \in DOMAIN state_by_case : ContiguousIds(load_case(slug))
    /\ ~screen.failed

\* a is an initial part of b.
IsPrefix(a, b) == Len(a) <= Len(b) /\ SubSeq(b, 1, Len(a)) = a

\* C18: "Salvar hipotese" and the timeline's "Adicionar" with empty or blank
\* text change no case state and show no error; with other text they add one
\* entry, holding the stripped text, at the end of their list and change
\* nothing else; and in every step but a reset of the case or a total reset
\* the timeline and the hypotheses of the case keep the entries they had, in
\* place and unaltered.
C18_ListsAppendOnly ==
    [][/\ \A txt \in EntryTexts :
            SaveHypothesis(txt) =>
                IF strip(txt) = <<>>
                THEN /\ state_by_case' = state_by_case
                     /\ ~screen'.error
                     /\ ~screen'.failed
                ELSE \E now \in Times :
                        state_by_case' =
                            Put(state_by_case, case_slug,
                                [cs EXCEPT !.hypotheses =
                                    cs.hypotheses
                                        \o <<[at |-> now, text |-> strip(txt)]>>])
       /\ \A t \in EntryTexts :
            AddTimelineEvent(t) =>
                IF strip(t) = <<>>
                THEN /\ state_by_case' = state_by_case
                     /\ ~screen'.error
                     /\ ~screen'.failed
                ELSE \E now \in Times :
                        state_by_case' =
                            Put(state_by_case, case_slug,
                                [cs EXCEPT !.timeline =
                                    cs.timeline
                                        \o <<[at |-> now, event |-> strip(t)]>>])
       /\ \/ ResetThisCase
          \/ ResetTotal
          \/ /\ IsPrefix(cs.timeline, state_by_case'[case_slug].timeline)
             /\ IsPrefix(cs.hypotheses, state_by_case'[case_slug].hypotheses)]_vars

\* C18 witness: two hypotheses and a timeline event are held, each with the
\* stripped text.
C18_Witness ==
    /\ Len(cs.hypotheses) = 2
    /\ Len(cs.timeline) = 1
    /\ cs.hypotheses[1].text = <<"y">>
    /\ cs.hypotheses[2].text = <<"x">>
    /\ cs.timeline[1].event = <<"x">>

\* C19: in every state, a started case has 1 <= current_env <=
\* max_opened_envelope, and a case with current_env > max_opened_envelope is
\* not started and has current_env = 1 and max_opened_envelope = 0; an
\* envelope on the screen is the current one of the active case, which is
\* started, and is not among the locked ones, and no envelope is on the
\* screen while the active case is not started.
C19_CurrentWithinFrontier ==
    /\ \A slug \in DOMAIN state_by_case :
          LET c == state_by_case[slug]
          IN /\ c.started =>
                    /\ 1 <= c.current_env
                    /\ c.current_env <= c.max_opened_envelope
             /\ c.current_env > c.max_opened_envelope =>
                    /\ ~c.started
                    /\ c.current_env = 1
                    /\ c.max_opened_envelope = 0
    /\ screen.envelope # 0 =>
          /\ cs.started
          /\ screen.envelope = cs.current_env
          /\ screen.envelope <= cs.max_opened_envelope
          /\ screen.envelope \notin screen.locked
    /\ ~cs.started => screen.envelope = 0

\* C19 witness: the last envelope is on the screen, at the frontier, while
\* the other case, entered and not started, has current_env 1 above its
\* frontier 0.
C19_Witness ==
    /\ screen.envelope = LastEnvelope
    /\ cs.current_env = cs.max_opened_envelope
    /\ \E slug \in DOMAIN state_by_case :
          /\ ~state_by_case[slug].started
          /\ state_by_case[slug].current_env > state_by_case[slug].max_opened_envelope

\* C20: in every state, a case that is not started has frontier 0, current
\* envelope 1, empty notes, timeline and hypotheses, every suspect neutral and
\* without notes, and no decision; a case is started exactly when its
\* frontier is at least 1; and while the active case is not started, no
\* envelope, notebook, suspect or decision control can be used on it.
C20_NotStartedIsDefault ==
    /\ \A slug \in DOMAIN state_by_case :
          LET c == state_by_case[slug]
          IN /\ c.started <=> c.max_opened_envelope >= 1
             /\ ~c.started =>
                    /\ c.max_opened_envelope = 0
                    /\ c.current_env = 1
                    /\ c.notes = <<>>
                    /\ c.timeline = <<>>
                    /\ c.hypotheses = <<>>
                    /\ \A n \in DOMAIN c.suspects :
                          c.suspects[n] = [status |-> "Neutro", notes |-> <<>>]
                    /\ ~c.decision_submitted
                    /\ c.decision = empty_decision
    /\ ~cs.started =>
          /\ \A e \in 1..LastEnvelope : ~ENABLED OpenEnvelope(e)
          /\ ~ENABLED ConfirmReading
          /\ ~ENABLED NextEnvelope
          /\ \A txt \in EntryTexts :
                /\ ~ENABLED SaveHypothesis(txt)
                /\ ~ENABLED AddTimelineEvent(txt)
          /\ \A text \in FreeTexts : ~ENABLED SetNotes(text)
          /\ \A n \in DOMAIN cs.suspects :
                /\ \A st \in Statuses : ~ENABLED SetSuspectStatus(n, st)
                /\ \A text \in FreeTexts : ~ENABLED SetSuspectNotes(n, text)
          /\ \A f \in FormInputs :
                ~ENABLED SubmitDecision(f.culprit, f.method, f.motive, f.reasoning)

\* C20 witness: the notebook page is selected for a case that is not
\* started, while the other case is started and holds notes.
C20_Witness ==
    /\ nav_page = PageNotebook
    /\ ~cs.started
    /\ \E slug \in DOMAIN state_by_case :
          /\ state_by_case[slug].started
          /\ state_by_case[slug].notes # Blank

====
